---- MODULE Spec2Model ----
(***************************************************************************)
(* Resumable batch comparison engine of Fify-FaceComparison.               *)
(*                                                                         *)
(* The model follows the current POST /api/analyze/:jobId handler          *)
(* (src/server/routes.ts 501-852), POST /api/scan (446-499) and the        *)
(* in-memory job store MemStorage (src/unnamed/part_018).                  *)
(***************************************************************************)
EXTENDS Integers, Sequences, FiniteSets, TLC

(***************************************************************************)
(* Bounds of the model.                                                    *)
(***************************************************************************)
MaxFiles == 2       \* image files in the folder
MaxBatch == 1       \* batch sizes below the source's BATCH_SIZE
MaxRequests == 5    \* requests an unrestricted client sends in one run
MaxMergeRuns == 2   \* times the merge is applied to one batch
MaxInFlight == 2    \* continuation requests the server runs at the same time
MaxClientRequests == 4  \* requests the upload component sends in one run
ExampleFiles == 5   \* image files in the folders of the worked example
ExampleBatch == 2   \* batch sizes of the worked example

(***************************************************************************)
(* Program constants.                                                      *)
(***************************************************************************)
BATCH_SIZE == 10

\* BATCH_SIZE is a tunable of the handler; the model runs the handler with
\* the source's value and with every smaller size up to MaxBatch.
BatchSizes == (1..MaxBatch) \cup {BATCH_SIZE}

\* JavaScript values that are not natural numbers.  Every real index is >= 0,
\* so the three values below are distinct from every index.
NegInfinity == 0 - 1    \* Math.max() of no arguments
JsonNull == 0 - 2       \* null in a JSON text
Undefined == 0 - 3      \* a property that is absent

VARIABLES
    folder,          \* number of image files the Drive folder lists
    faces,           \* 0-based indexes of the files that show the reference face
    batchSize,       \* the handler's BATCH_SIZE for this run
    jobs,            \* MemStorage.jobs : id -> ScanJob
    currentId,       \* MemStorage.currentId
    directoryCache,  \* directoryCache entry of the folder's driveUrl
    issued,          \* continuation tokens the server has returned so far
    resp,            \* the request just served and its response
    requests,        \* requests the unrestricted client has sent
    merge,           \* arguments and successive outputs of the merge step alone
    ticks,           \* continuation requests between their load and their persist
    client           \* the upload component of the browser client

vars == <<folder, faces, batchSize, jobs, currentId, directoryCache, issued, resp,
          requests, merge, ticks, client>>

(***************************************************************************)
(* Continuation tokens as they travel in the request body.                 *)
(***************************************************************************)
NoToken == [wire |-> "none", jobId |-> 0, nextIndex |-> Undefined, referenceImageId |-> ""]

\* a non-empty string that is not JSON
GarbageToken == [wire |-> "garbage", jobId |-> 0, nextIndex |-> Undefined, referenceImageId |-> ""]

JsonToken(referenceImageId, nextIndex, jobId) ==
    [wire |-> "json", jobId |-> jobId, nextIndex |-> nextIndex,
     referenceImageId |-> referenceImageId]

\* JSON.stringify writes a non-finite number as null
JsonStringifyNumber(n) == IF n = NegInfinity THEN JsonNull ELSE n

\* v || 0
OrZero(v) == IF v = JsonNull \/ v = Undefined \/ v = 0 THEN 0 ELSE v

(***************************************************************************)
(* External collaborators.                                                 *)
(***************************************************************************)
\* GoogleDriveProvider.scanDirectory: the number of image files listed
ScanDirectory == folder

Min(a, b) == IF a <= b THEN a ELSE b

\* provider.getImageBatch(startIndex, count): the files at positions
\* [startIndex, startIndex+count) of the listing, fewer near the end, none
\* past the end; each carries its 0-based index.
GetImageBatch(startIndex, count) ==
    [k \in 1..(IF startIndex >= folder THEN 0 ELSE Min(count, folder - startIndex))
        |-> startIndex + k - 1]

\* Rekognition's answer for the file at index i: bestMatch?.Similarity
SimilarityOf(i) == IF i \in faces THEN 80 + i ELSE 0

(***************************************************************************)
(* MemStorage                                                              *)
(***************************************************************************)
\* the url of the one Drive folder of the model
DriveUrl == "folder"

\* createdAt is the clock reading of the scan request; the clock is
\* modelled by the order of creation
CreateScanJob(js, id, imageCount) ==
    js @@ (id :> [id |-> id, driveUrl |-> DriveUrl, createdAt |-> id,
                  imageCount |-> imageCount, status |-> "pending",
                  results |-> <<>>])

\* a store that writes the results and leaves the status alone
\* no job: what getScanJob returns for an unknown id
NoJob == [id |-> 0, driveUrl |-> "", createdAt |-> 0, imageCount |-> 0, status |-> "",
          results |-> <<>>]

\* a read that finds the job only when the previous request was not a read
GetScanJobOnce(js, id) ==
    IF id \in DOMAIN js /\ resp.op # "read" THEN js[id] ELSE NoJob

GetScanJob(js, id) == IF id \in DOMAIN js THEN js[id] ELSE NoJob

UpdateScanJobResultsKeepStatus(js, id, results, status) ==
    [js EXCEPT ![id] = [@ EXCEPT !.results = results]]

UpdateScanJobResults(js, id, results, status) ==
    [js EXCEPT ![id] = [@ EXCEPT !.results = results, !.status = status]]

\* an update that stores a rebuilt job instead of the one it read
UpdateJobImageCountRebuilt(js, id, imageCount) ==
    [js EXCEPT ![id] = [NoJob EXCEPT !.id = id, !.imageCount = imageCount,
                                     !.status = js[id].status,
                                     !.results = js[id].results]]

UpdateJobImageCount(js, id, imageCount) ==
    [js EXCEPT ![id] = [@ EXCEPT !.imageCount = imageCount]]

(***************************************************************************)
(* Pieces of the analyze handler.                                          *)
(***************************************************************************)
ImageIds(results) == {results[k].imageId : k \in DOMAIN results}

\* the result a processing promise resolves to
ScanResultOk(imageIndex) ==
    [imageId |-> imageIndex + 1, similarity |-> SimilarityOf(imageIndex),
     matched |-> imageIndex \in faces, error |-> FALSE]

ScanResultError(imageIndex) ==
    [imageId |-> imageIndex + 1, similarity |-> 0, matched |-> FALSE, error |-> TRUE]

ProcessImage(imageIndex, failed) ==
    IF imageIndex \in failed THEN ScanResultError(imageIndex)
    ELSE ScanResultOk(imageIndex)

\* Promise.race([Promise.all(processingPromises), timeoutPromise]): all the
\* results, or none when the timeout wins.
RaceResultsRejecting(imagesBatch, failed, timedOut) ==
    IF timedOut \/ failed # {} THEN <<>>
    ELSE [k \in DOMAIN imagesBatch |-> ProcessImage(imagesBatch[k], failed)]

RaceResults(imagesBatch, failed, timedOut) ==
    IF timedOut THEN <<>>
    ELSE [k \in DOMAIN imagesBatch |-> ProcessImage(imagesBatch[k], failed)]

\* a dedupe that takes every entry for a duplicate
UniqueResultsNone(results, acc) == acc

\* uniqueResults: the first entry of every imageId, in order
RECURSIVE UniqueResults(_, _)
UniqueResults(results, acc) ==
    IF results = <<>> THEN acc
    ELSE UniqueResults(Tail(results),
                       IF Head(results).imageId \in ImageIds(acc) THEN acc
                       ELSE Append(acc, Head(results)))

\* mergedResults.findIndex(r => r.imageId === id); 0 stands for -1
FindIndex(results, id) ==
    IF id \in ImageIds(results)
    THEN CHOOSE k \in DOMAIN results :
            /\ results[k].imageId = id
            /\ \A m \in 1..(k - 1) : results[m].imageId # id
    ELSE 0

RECURSIVE MergeResultsPush(_, _)
MergeResultsPush(results, newResults) ==
    IF newResults = <<>> THEN results
    ELSE MergeResultsPush(Append(results, Head(newResults)), Tail(newResults))

RECURSIVE MergeResults(_, _)
MergeResults(results, newResults) ==
    IF newResults = <<>> THEN results
    ELSE LET newResult == Head(newResults)
             existingIndex == FindIndex(results, newResult.imageId)
         IN MergeResults(IF existingIndex = 0 THEN Append(results, newResult)
                         ELSE [results EXCEPT ![existingIndex] = newResult],
                         Tail(newResults))

MathMax(S) == IF S = {} THEN NegInfinity ELSE CHOOSE x \in S : \A y \in S : y <= x

\* an empty list of new results taken for the end of the folder
LastProcessedIndexOrEnd(newResults) ==
    IF newResults = <<>> THEN folder ELSE MathMax(ImageIds(newResults))

LastProcessedIndex(newResults) == MathMax(ImageIds(newResults))

IsCompleteEarly(lastProcessedIndex, imageCount) == lastProcessedIndex >= imageCount - 1

IsComplete(lastProcessedIndex, imageCount) == lastProcessedIndex >= imageCount

InitialTokenOffByOne(referenceImageId, jobId) == JsonToken(referenceImageId, 1, jobId)

InitialToken(referenceImageId, jobId) == JsonToken(referenceImageId, 0, jobId)

NextToken(isComplete, referenceImageId, lastProcessedIndex, jobId) ==
    IF ~isComplete
    THEN JsonToken(referenceImageId, JsonStringifyNumber(lastProcessedIndex), jobId)
    ELSE NoToken

\* "Reference image missing": the token names the uploaded file and the
\* request carries none
ReferenceLostNever(referenceImageId, hasFile) == FALSE

ReferenceLost(referenceImageId, hasFile) ==
    referenceImageId = "reference" /\ ~hasFile

\* referenceImageBuffer: req.file.buffer or null
ReferenceImageBuffer(referenceImageId, hasFile) ==
    IF referenceImageId = "reference" /\ hasFile THEN "file" ELSE "null"

(***************************************************************************)
(* Requests and responses.                                                 *)
(***************************************************************************)
NoResp ==
    [op |-> "none", jobId |-> 0, sent |-> NoToken, hasFile |-> FALSE,
     code |-> 0, error |-> "", tick |-> "", startIndex |-> 0,
     compared |-> {}, completed |-> {}, failed |-> {}, timedOut |-> FALSE,
     reprocessed |-> {},
     newResults |-> <<>>, results |-> <<>>, total |-> 0, processed |-> 0,
     isComplete |-> FALSE, nextIndex |-> 0, token |-> NoToken, snapshot |-> NoJob]

Request(jobId, tok, hasFile) ==
    [NoResp EXCEPT !.op = "analyze", !.jobId = jobId, !.sent = tok, !.hasFile = hasFile]

\* an error answered as a success
FailureAccepted(req, code, error) == [req EXCEPT !.code = 200, !.error = error]

Failure(req, code, error) == [req EXCEPT !.code = code, !.error = error]

\* what the environment of one request may do
AnyEnv == [expire |-> BOOLEAN, scanFails |-> BOOLEAN, slow |-> BOOLEAN,
           fetchFails |-> BOOLEAN, timeout |-> BOOLEAN, cmpFails |-> BOOLEAN]

\* no listing or fetch failure and no time budget exceeded; single
\* comparisons may still fail
CalmEnv == [expire |-> BOOLEAN, scanFails |-> {FALSE}, slow |-> {FALSE},
            fetchFails |-> {FALSE}, timeout |-> {FALSE}, cmpFails |-> BOOLEAN]

Range(s) == {s[k] : k \in DOMAIN s}

NoCache == [present |-> FALSE, imageCount |-> 0]

Issue(tok) == IF tok = NoToken THEN issued ELSE issued \cup {tok}

(***************************************************************************)
(* POST /api/scan                                                          *)
(***************************************************************************)
ScanRequest(E) ==
    /\ \E scanFails \in E.scanFails :
          IF scanFails
          THEN /\ resp' = [NoResp EXCEPT !.op = "scan", !.code = 400, !.error = "ScanFailed"]
               /\ UNCHANGED <<jobs, currentId>>
          ELSE /\ jobs' = CreateScanJob(jobs, currentId, ScanDirectory)
               /\ currentId' = currentId + 1
               /\ resp' = [NoResp EXCEPT !.op = "scan", !.code = 200, !.jobId = currentId,
                                         !.total = ScanDirectory]
    /\ UNCHANGED <<folder, faces, batchSize, directoryCache, issued>>

(***************************************************************************)
(* POST /api/analyze/:jobId, first request (no continuation token)         *)
(***************************************************************************)
Bootstrap(req, jobs1, E) ==
    LET jobId == req.jobId
        referenceImageId == "reference"
        req1 == [req EXCEPT !.tick = "bootstrap"]
    IN IF ~req.hasFile
       THEN /\ resp' = Failure(req1, 400, "NoFace")
            /\ jobs' = jobs1
            /\ UNCHANGED issued
       ELSE \E scanFails \in E.scanFails :
              IF scanFails
              THEN /\ resp' = Failure(req1, 500, "ScanFailed")
                   /\ jobs' = jobs1
                   /\ UNCHANGED issued
              ELSE LET imageCount == ScanDirectory
                       jobs2 == UpdateJobImageCount(jobs1, jobId, imageCount)
                       initialToken == InitialToken(referenceImageId, jobId)
                   IN /\ jobs' = UpdateScanJobResults(jobs2, jobId, <<>>, "processing")
                      /\ issued' = Issue(initialToken)
                      /\ resp' = [req1 EXCEPT !.code = 200, !.results = <<>>,
                                              !.token = initialToken,
                                              !.total = jobs2[jobId].imageCount,
                                              !.processed = 0, !.isComplete = FALSE,
                                              !.nextIndex = 0]

(***************************************************************************)
(* POST /api/analyze/:jobId with a continuation token                      *)
(***************************************************************************)
Continuation(req, jobs1, imageCount, E) ==
    LET jobId == req.jobId
        parsedToken == req.sent
        startIndex == OrZero(parsedToken.nextIndex)
        referenceImageId == parsedToken.referenceImageId
        existing == jobs1[jobId].results
        results == UniqueResults(existing, <<>>)
        jobs2 == IF Len(results) # Len(existing)
                 THEN UpdateScanJobResults(jobs1, jobId, results, jobs1[jobId].status)
                 ELSE jobs1
        req1 == [req EXCEPT !.startIndex = startIndex]
        referenceImageBuffer == ReferenceImageBuffer(referenceImageId, req.hasFile)
    IN IF ReferenceLost(referenceImageId, req.hasFile)
       THEN /\ resp' = Failure(req1, 400, "ReferenceMissing")
            /\ jobs' = jobs2
            /\ UNCHANGED issued
       ELSE \E slow \in E.slow :
         IF slow
         THEN \* setup took more than SAFE_TIMEOUT * 0.2
              /\ resp' = [req1 EXCEPT !.code = 200, !.tick = "deferred",
                                      !.results = results,
                                      !.token = req.sent,
                                      !.total = jobs1[jobId].imageCount,
                                      !.processed = Len(results),
                                      !.isComplete = FALSE, !.nextIndex = startIndex]
              /\ jobs' = jobs2
              /\ UNCHANGED issued
         ELSE IF referenceImageBuffer = "null"
         THEN /\ resp' = Failure(req1, 400, "ReferenceBufferMissing")
              /\ jobs' = jobs2
              /\ UNCHANGED issued
         ELSE \E fetchFails \in E.fetchFails :
           IF fetchFails
           THEN /\ resp' = Failure(req1, 500, "FetchFailed")
                /\ jobs' = jobs2
                /\ UNCHANGED issued
           ELSE LET imagesBatch == GetImageBatch(startIndex, batchSize) IN
             \E timedOut \in (IF imagesBatch = <<>> THEN {FALSE} ELSE E.timeout) :
             \* the comparisons that end before the race is decided: all of
             \* them, or not all when the timeout wins
             \E completed \in (IF timedOut
                               THEN (SUBSET Range(imagesBatch)) \ {Range(imagesBatch)}
                               ELSE {Range(imagesBatch)}) :
             \E failed \in (IF TRUE \in E.cmpFails
                            THEN SUBSET completed ELSE {{}}) :
               LET newResults == RaceResults(imagesBatch, failed, timedOut)
                   mergedResults == MergeResults(results, newResults)
                   lastProcessedIndex == LastProcessedIndex(newResults)
                   isComplete == IsComplete(lastProcessedIndex, imageCount)
                   nextToken == NextToken(isComplete, referenceImageId,
                                          lastProcessedIndex, jobId)
               IN /\ jobs' = UpdateScanJobResults(jobs2, jobId, mergedResults, "processing")
                  /\ issued' = Issue(nextToken)
                  /\ resp' = [req1 EXCEPT !.code = 200, !.tick = "batch",
                                  !.compared = Range(imagesBatch),
                                  !.completed = completed,
                                  !.failed = failed, !.timedOut = timedOut,
                                  !.reprocessed = ImageIds(newResults) \cap ImageIds(results),
                                  !.newResults = newResults,
                                  !.results = mergedResults,
                                  !.token = nextToken,
                                  !.total = imageCount,
                                  !.processed = Len(mergedResults),
                                  !.isComplete = isComplete,
                                  !.nextIndex = JsonStringifyNumber(lastProcessedIndex)]

(***************************************************************************)
(* POST /api/analyze/:jobId                                                *)
(***************************************************************************)
Analyze(jobId, continuationToken, hasFile, E) ==
    LET req == Request(jobId, continuationToken, hasFile) IN
    /\ UNCHANGED <<folder, faces, batchSize, currentId>>
    /\ IF jobId \notin DOMAIN jobs
       THEN /\ resp' = Failure(req, 404, "JobNotFound")
            /\ UNCHANGED <<jobs, directoryCache, issued>>
       ELSE \E expired \in (IF directoryCache.present THEN E.expire ELSE {FALSE}) :
            \E scanFails \in (IF ~directoryCache.present \/ expired
                              THEN E.scanFails ELSE {FALSE}) :
         LET job == jobs[jobId]
             cacheMiss == ~directoryCache.present \/ expired
             scanned == cacheMiss /\ ~scanFails
             imageCount == IF cacheMiss
                           THEN (IF scanFails THEN job.imageCount ELSE ScanDirectory)
                           ELSE directoryCache.imageCount
             jobs1 == IF scanned /\ imageCount # job.imageCount
                      THEN UpdateJobImageCount(jobs, jobId, imageCount)
                      ELSE jobs
         IN /\ directoryCache' = IF scanned
                                 THEN [present |-> TRUE, imageCount |-> imageCount]
                                 ELSE directoryCache
            /\ IF continuationToken.wire = "garbage"
               THEN /\ resp' = Failure(req, 400, "InvalidToken")
                    /\ jobs' = jobs1
                    /\ UNCHANGED issued
               ELSE IF continuationToken.wire = "none"
               THEN Bootstrap(req, jobs1, E)
               ELSE Continuation(req, jobs1, imageCount, E)

\* the tokens a client can put in a request for job j
Sendable(j) ==
    {NoToken, GarbageToken, JsonToken("reference", Undefined, j), JsonToken("", 0, j)}
        \cup issued

\* which files show the reference face: the odd ones, or the even ones
\* after the first
FaceSets(n) == {{i \in 0..(n - 1) : i % 2 = 1}, {i \in 1..(n - 1) : i % 2 = 0}}

(***************************************************************************)
(* An unrestricted client: any request, with any token the server has      *)
(* returned so far or a malformed one, in any order.                       *)
(***************************************************************************)
Scan ==
    /\ requests < MaxRequests
    /\ requests' = requests + 1
    /\ ScanRequest(AnyEnv)
    /\ UNCHANGED <<merge, ticks, client>>

Tick ==
    /\ requests < MaxRequests
    /\ requests' = requests + 1
    /\ \E j \in 1..currentId, hasFile \in BOOLEAN :
          \E tok \in Sendable(j) : Analyze(j, tok, hasFile, AnyEnv)
    /\ UNCHANGED <<merge, ticks, client>>

\* timers of the upload component that end in analyzeMutation.mutate()
TimerKinds == {"submit", "continue", "abortRetry", "errorRetry", "pollResume"}

\* the upload component is not mounted
NoClient ==
    [mounted |-> FALSE, jobId |-> 0, awsCredentials |-> FALSE,
     continuationToken |-> NoToken, isPolling |-> FALSE, isContinuing |-> FALSE,
     status |-> "idle", latest |-> 0, timers |-> [k \in TimerKinds |-> 0],
     inflight |-> {}, poll |-> FALSE, complete |-> FALSE,
     received |-> NoToken, unfinished |-> FALSE, event |-> "none"]

\* the merge step has not been run on its own
NoMerge == [existing |-> <<>>, incoming |-> <<>>, out |-> <<>>]

Init ==
    /\ folder \in 0..MaxFiles
    /\ faces \in FaceSets(folder)
    /\ batchSize \in BatchSizes
    /\ jobs = <<>>
    /\ currentId = 1
    /\ directoryCache = NoCache
    /\ issued = {}
    /\ resp = NoResp
    /\ requests = 0
    /\ merge = NoMerge
    /\ ticks = <<>>
    /\ client = NoClient

Next == Scan \/ Tick

Spec == Init /\ [][Next]_vars

(***************************************************************************)
(* A client that drives one job at a time: it scans a folder, sends the    *)
(* first request with the face image and then keeps sending the token of   *)
(* the last response, with the face image, until no token comes back.      *)
(* The listing and the batch fetch never fail and no time budget is        *)
(* exceeded.                                                               *)
(***************************************************************************)
ChainJobs == 2

ChainScan ==
    /\ currentId <= ChainJobs
    /\ \/ currentId = 1
       \/ resp.op = "analyze" /\ resp.code = 200 /\ resp.isComplete
    /\ ScanRequest(CalmEnv)
    /\ UNCHANGED <<requests, merge, ticks, client>>

ChainBootstrap ==
    /\ resp.op = "scan" /\ resp.code = 200
    /\ Analyze(resp.jobId, NoToken, TRUE, CalmEnv)
    /\ UNCHANGED <<requests, merge, ticks, client>>

ChainTick ==
    /\ resp.op = "analyze" /\ resp.code = 200 /\ resp.token # NoToken
    /\ Analyze(resp.jobId, resp.token, TRUE, CalmEnv)
    /\ UNCHANGED <<requests, merge, ticks, client>>

ChainNext == ChainScan \/ ChainBootstrap \/ ChainTick

SpecChain == Init /\ [][ChainNext]_vars /\ WF_vars(ChainNext)

(***************************************************************************)
(* The same client on the folders of the spec's worked example: up to      *)
(* ExampleFiles files and batch sizes up to ExampleBatch.                  *)
(***************************************************************************)
InitExample ==
    /\ folder \in 0..ExampleFiles
    /\ faces \in FaceSets(folder)
    /\ batchSize \in 1..ExampleBatch
    /\ jobs = <<>>
    /\ currentId = 1
    /\ directoryCache = NoCache
    /\ issued = {}
    /\ resp = NoResp
    /\ requests = 0
    /\ merge = NoMerge
    /\ ticks = <<>>
    /\ client = NoClient

SpecExample == InitExample /\ [][ChainNext]_vars

(***************************************************************************)
(* GET /api/jobs/:jobId, the status read, sent by the unrestricted client  *)
(* between its other requests.                                             *)
(***************************************************************************)
JobRequest(jobId) ==
    LET job == GetScanJob(jobs, jobId) IN
    /\ resp' = IF job = NoJob
               THEN [NoResp EXCEPT !.op = "read", !.jobId = jobId, !.code = 404,
                                   !.error = "JobNotFound"]
               ELSE [NoResp EXCEPT !.op = "read", !.jobId = jobId, !.code = 200,
                                   !.snapshot = job]
    /\ UNCHANGED <<folder, faces, batchSize, jobs, currentId, directoryCache, issued>>

Read ==
    /\ requests < MaxRequests
    /\ requests' = requests + 1
    /\ \E j \in 1..currentId : JobRequest(j)
    /\ UNCHANGED <<merge, ticks, client>>

NextRead == Scan \/ Tick \/ Read

SpecRead == Init /\ [][NextRead]_vars

(***************************************************************************)
(* The continuation request in two steps, as the event loop can interleave *)
(* it with other requests: from the job lookup to the end of the           *)
(* comparisons (routes.ts 554-805), where the handler awaits the cache     *)
(* scan, the batch fetch and the comparisons, and then the merge, the      *)
(* persist call and the response (807-846), which run without await in     *)
(* between.  Requests carry the face image and a token the server issued   *)
(* for the job; the listing and the fetch do not fail.                     *)
(***************************************************************************)
\* the store while the comparisons run, when the handler's result list is
\* the stored array itself and each comparison pushes onto it (the earlier
\* handler with MemStorage, routes.ts 118-121 and 283-311)
WhileComparingInPlace(js, id, results, newResults) ==
    [js EXCEPT ![id] = [@ EXCEPT !.results = MergeResultsPush(results, newResults)]]

\* the store while the comparisons run: the current handler collects the
\* new results in an array of its own
WhileComparing(js, id, results, newResults) == js

Remove(seq, k) == [m \in 1..(Len(seq) - 1) |-> IF m < k THEN seq[m] ELSE seq[m + 1]]

TickStart ==
    /\ requests < MaxRequests
    /\ requests' = requests + 1
    /\ Len(ticks) < MaxInFlight
    /\ \E jobId \in DOMAIN jobs :
       \E tok \in {t \in issued : t.jobId = jobId} :
       \E expired \in (IF directoryCache.present THEN CalmEnv.expire ELSE {FALSE}) :
         LET job == jobs[jobId]
             cacheMiss == ~directoryCache.present \/ expired
             imageCount == IF cacheMiss THEN ScanDirectory ELSE directoryCache.imageCount
             jobs1 == IF cacheMiss /\ imageCount # job.imageCount
                      THEN UpdateJobImageCount(jobs, jobId, imageCount)
                      ELSE jobs
             startIndex == OrZero(tok.nextIndex)
             existing == jobs1[jobId].results
             results == UniqueResults(existing, <<>>)
             jobs2 == IF Len(results) # Len(existing)
                      THEN UpdateScanJobResults(jobs1, jobId, results, jobs1[jobId].status)
                      ELSE jobs1
             imagesBatch == GetImageBatch(startIndex, batchSize)
         IN \E timedOut \in (IF imagesBatch = <<>> THEN {FALSE} ELSE AnyEnv.timeout) :
            \E completed \in (IF timedOut
                              THEN (SUBSET Range(imagesBatch)) \ {Range(imagesBatch)}
                              ELSE {Range(imagesBatch)}) :
            \E failed \in SUBSET completed :
              LET newResults == RaceResults(imagesBatch, failed, timedOut) IN
              /\ directoryCache' = IF cacheMiss
                                    THEN [present |-> TRUE, imageCount |-> imageCount]
                                    ELSE directoryCache
              /\ jobs' = WhileComparing(jobs2, jobId, results, newResults)
              /\ ticks' = Append(ticks,
                      [jobId |-> jobId, sent |-> tok, startIndex |-> startIndex,
                       imageCount |-> imageCount, before |-> jobs[jobId].results,
                       results |-> results, compared |-> Range(imagesBatch),
                       completed |-> completed, failed |-> failed,
                       timedOut |-> timedOut, newResults |-> newResults])
    /\ UNCHANGED <<folder, faces, batchSize, currentId, issued, resp, merge, client>>

TickFinish ==
    /\ \E k \in DOMAIN ticks :
         LET t == ticks[k]
             mergedResults == MergeResults(t.results, t.newResults)
             lastProcessedIndex == LastProcessedIndex(t.newResults)
             isComplete == IsComplete(lastProcessedIndex, t.imageCount)
             nextToken == NextToken(isComplete, t.sent.referenceImageId,
                                    lastProcessedIndex, t.jobId)
         IN /\ jobs' = UpdateScanJobResults(jobs, t.jobId, mergedResults, "processing")
            /\ issued' = Issue(nextToken)
            /\ resp' = [Request(t.jobId, t.sent, TRUE) EXCEPT
                            !.code = 200, !.tick = "batch", !.startIndex = t.startIndex,
                            !.compared = t.compared, !.completed = t.completed,
                            !.failed = t.failed, !.timedOut = t.timedOut,
                            !.reprocessed = ImageIds(t.newResults) \cap ImageIds(t.results),
                            !.newResults = t.newResults, !.results = mergedResults,
                            !.token = nextToken, !.total = t.imageCount,
                            !.processed = Len(mergedResults), !.isComplete = isComplete,
                            !.nextIndex = JsonStringifyNumber(lastProcessedIndex)]
            /\ ticks' = Remove(ticks, k)
    /\ UNCHANGED <<folder, faces, batchSize, currentId, directoryCache, requests, merge,
                   client>>

StepBootstrap ==
    /\ requests < MaxRequests
    /\ requests' = requests + 1
    /\ \E j \in DOMAIN jobs : Analyze(j, NoToken, TRUE, CalmEnv)
    /\ UNCHANGED <<merge, ticks, client>>

StepScan ==
    /\ requests < MaxRequests
    /\ requests' = requests + 1
    /\ ScanRequest(CalmEnv)
    /\ UNCHANGED <<merge, ticks, client>>

NextSteps == StepScan \/ StepBootstrap \/ TickStart \/ TickFinish \/ Read

SpecSteps == Init /\ [][NextSteps]_vars

(***************************************************************************)
(* A folder whose content changes while jobs run: files are added to or    *)
(* removed from the end of the listing between two requests of the         *)
(* unrestricted client.  The change counts in the budget of the run.       *)
(***************************************************************************)
FolderChange ==
    /\ requests < MaxRequests
    /\ requests' = requests + 1
    /\ \E n \in (0..MaxFiles) \ {folder} :
          /\ folder' = n
          /\ faces' \in {f \in FaceSets(n) :
                           \A i \in 0..(Min(n, folder) - 1) : i \in f <=> i \in faces}
    /\ resp' = [NoResp EXCEPT !.op = "folder"]
    /\ UNCHANGED <<batchSize, jobs, currentId, directoryCache, issued, merge, ticks,
                   client>>

NextDrift == Scan \/ Tick \/ FolderChange

SpecDrift == Init /\ [][NextDrift]_vars

(***************************************************************************)
(* The upload component of the browser client (src/unnamed/part_010)       *)
(* against the server, for one job.  The face image is selected.  Time is  *)
(* left out: a pending timer may fire at any moment, a request in flight   *)
(* may be answered, be aborted by the 12 s timeout or fail in transport.   *)
(* The budget of the run counts the requests the client sends.             *)
(***************************************************************************)
\* the value of continuationToken that a callback of the mutation closes
\* over: the one of the render before the response (the token sent), or the
\* one of a render that already saw the state updates of the response
SeenTokens(sent, current) == {sent, current}

\* what the environment of one request of the client may do: the listing is
\* cached and succeeds
ClientEnv == [expire |-> {FALSE}, scanFails |-> {FALSE}, slow |-> BOOLEAN,
              fetchFails |-> BOOLEAN, timeout |-> BOOLEAN, cmpFails |-> {FALSE}]

AddTimer(c, kind) == [c EXCEPT !.timers[kind] = @ + 1]

\* analyzeMutation.mutate(): mutationFn builds the request from the current
\* state and sends it
Mutate(c, id) ==
    [c EXCEPT !.inflight = @ \cup {[id |-> id, sent |-> c.continuationToken,
                                    last |-> c.received, unfinished |-> c.unfinished,
                                    polling |-> c.isPolling]},
              !.status = "pending",
              !.latest = id,
              !.isContinuing = @ \/ c.continuationToken # NoToken,
              !.event = "sent"]

Settle(c, r, status) ==
    [c EXCEPT !.inflight = @ \ {r},
              !.status = IF r.id = c.latest THEN status ELSE @]

\* onError without the retry
RetryAfterErrorNever(seen) == FALSE

\* onError: if (continuationToken) retry after 10 s
RetryAfterError(seen) == seen # NoToken

\* mutationFn on a 200 answer, then onSuccess
OnResponse(c, r, data, seen) ==
    LET c1 == [Settle(c, r, "success") EXCEPT
                   !.isContinuing = FALSE,
                   !.continuationToken = data.token,
                   !.received = data.token,
                   !.unfinished = ~data.isComplete,
                   !.event = "response"]
        c2 == IF data.isComplete THEN c1
              ELSE IF data.token # NoToken THEN AddTimer(c1, "continue")
              ELSE [c1 EXCEPT !.isPolling = TRUE]
    IN IF seen # NoToken /\ ~data.isComplete THEN c2
       ELSE IF data.isComplete
       THEN [c2 EXCEPT !.complete = TRUE, !.continuationToken = NoToken]
       ELSE [c2 EXCEPT !.isPolling = TRUE]

\* mutationFn on AbortError (the fake answer), then onSuccess
OnAbort(c, r, seen) ==
    LET c1 == [Settle(c, r, "success") EXCEPT !.event = "abort"]
        c2 == IF r.sent # NoToken THEN AddTimer(c1, "abortRetry")
              ELSE [c1 EXCEPT !.isPolling = TRUE]
    IN IF seen # NoToken THEN c2 ELSE [c2 EXCEPT !.isPolling = TRUE]

\* mutationFn throws (answer not ok, or fetch rejected), then onError
OnError(c, r, seen, event) ==
    LET c1 == [Settle(c, r, "error") EXCEPT !.isContinuing = FALSE, !.event = event]
    IN IF RetryAfterError(seen) THEN AddTimer(c1, "errorRetry") ELSE c1

\* pollForResults on an answer that is ok
OnPoll(c, data) ==
    LET c1 == [c EXCEPT !.poll = FALSE, !.event = "poll"]
    IN IF data.code # 200 THEN c1
       ELSE IF data.token # NoToken
       THEN AddTimer([c1 EXCEPT !.continuationToken = data.token, !.isPolling = FALSE],
                     "pollResume")
       ELSE IF data.snapshot.status = "complete"
       THEN [c1 EXCEPT !.isPolling = FALSE, !.complete = TRUE]
       ELSE c1

ServerUnchanged == UNCHANGED <<folder, faces, batchSize, jobs, currentId, directoryCache,
                               issued, resp>>

\* the page scans the folder and shows the upload component for the job
CMount ==
    /\ ~client.mounted
    /\ ScanRequest(CalmEnv)
    /\ \E env \in BOOLEAN :
          client' = [NoClient EXCEPT !.mounted = TRUE, !.jobId = resp'.jobId,
                                     !.awsCredentials = env, !.event = "mount"]
    /\ UNCHANGED <<requests, merge, ticks>>

\* handleAwsSubmit
CSubmitCredentials ==
    /\ client.mounted /\ ~client.awsCredentials /\ ~client.complete
    /\ client' = AddTimer([client EXCEPT !.awsCredentials = TRUE, !.event = "submit"],
                          "submit")
    /\ ServerUnchanged
    /\ UNCHANGED <<requests, merge, ticks>>

\* handleAnalyze, by the Analyze button, and handleRetryAnalysis, by the
\* Retry button
CClick ==
    /\ client.mounted /\ client.awsCredentials /\ ~client.complete
    /\ client.status # "pending" /\ ~client.isPolling /\ ~client.isContinuing
    /\ requests < MaxClientRequests
    /\ requests' = requests + 1
    /\ client' = Mutate([client EXCEPT !.isPolling = FALSE], requests + 1)
    /\ ServerUnchanged
    /\ UNCHANGED <<merge, ticks>>

\* a timer fires and calls analyzeMutation.mutate()
CTimer ==
    /\ requests < MaxClientRequests
    /\ requests' = requests + 1
    /\ \E kind \in TimerKinds :
          /\ client.timers[kind] > 0
          /\ client' = Mutate([client EXCEPT !.timers[kind] = @ - 1], requests + 1)
    /\ ServerUnchanged
    /\ UNCHANGED <<merge, ticks>>

\* the server answers a request in flight
CTickResponse ==
    /\ \E r \in client.inflight :
          /\ Analyze(client.jobId, r.sent, TRUE, ClientEnv)
          /\ IF resp'.code = 200
             THEN \E seen \in SeenTokens(r.sent, resp'.token) :
                      client' = OnResponse(client, r, resp', seen)
             ELSE \E seen \in SeenTokens(r.sent, client.continuationToken) :
                      client' = OnError(client, r, seen, "failed")
    /\ UNCHANGED <<requests, merge, ticks>>

\* the 12 s timeout aborts a request in flight; the server may have served
\* it or not
CTickAbort ==
    /\ \E r \in client.inflight :
          /\ \/ Analyze(client.jobId, r.sent, TRUE, ClientEnv)
             \/ ServerUnchanged
          /\ \E seen \in SeenTokens(r.sent, client.continuationToken) :
                client' = OnAbort(client, r, seen)
    /\ UNCHANGED <<requests, merge, ticks>>

\* fetch rejects: the request fails in transport
CTickTransportError ==
    /\ \E r \in client.inflight :
          \E seen \in SeenTokens(r.sent, client.continuationToken) :
              client' = OnError(client, r, seen, "transport")
    /\ ServerUnchanged
    /\ UNCHANGED <<requests, merge, ticks>>

\* the polling effect: pollForResults sends GET /api/jobs/:jobId
CPollSend ==
    /\ client.mounted /\ ~client.complete
    /\ client.isPolling /\ client.status # "pending" /\ ~client.isContinuing
    /\ ~client.poll
    /\ requests < MaxClientRequests
    /\ requests' = requests + 1
    /\ client' = [client EXCEPT !.poll = TRUE, !.event = "pollSent"]
    /\ ServerUnchanged
    /\ UNCHANGED <<merge, ticks>>

CPollResponse ==
    /\ client.poll
    /\ JobRequest(client.jobId)
    /\ client' = OnPoll(client, resp')
    /\ UNCHANGED <<requests, merge, ticks>>

NextClient ==
    \/ CMount \/ CSubmitCredentials \/ CClick \/ CTimer
    \/ CTickResponse \/ CTickAbort \/ CTickTransportError
    \/ CPollSend \/ CPollResponse

SpecClient == Init /\ [][NextClient]_vars

(***************************************************************************)
(* The merge step of the handler on its own (routes.ts 807-816): an        *)
(* existing result list as the reload leaves it (one entry per imageId)    *)
(* and a batch of new results (one per image of the batch), each entry a   *)
(* result a processing promise can resolve to.  The merge is applied to    *)
(* the list, and then again to its own output with the same batch.         *)
(***************************************************************************)
ScanResults ==
    {ScanResultOk(i) : i \in 0..(folder - 1)} \cup {ScanResultError(i) : i \in 0..(folder - 1)}

ResultLists ==
    {s \in UNION {[1..n -> ScanResults] : n \in 0..folder} :
        Cardinality(ImageIds(s)) = Len(s)}

InitMerge ==
    /\ folder \in 0..MaxFiles
    /\ faces \in FaceSets(folder)
    /\ batchSize = BATCH_SIZE
    /\ jobs = <<>>
    /\ currentId = 1
    /\ directoryCache = NoCache
    /\ issued = {}
    /\ resp = NoResp
    /\ requests = 0
    /\ merge \in [existing : ResultLists, incoming : ResultLists, out : {<<>>}]
    /\ ticks = <<>>
    /\ client = NoClient

MergeRun ==
    /\ Len(merge.out) < MaxMergeRuns
    /\ LET results == IF merge.out = <<>> THEN merge.existing
                      ELSE merge.out[Len(merge.out)]
       IN merge' = [merge EXCEPT !.out = Append(@, MergeResults(results, merge.incoming))]
    /\ UNCHANGED <<folder, faces, batchSize, jobs, currentId, directoryCache, issued,
                   resp, requests, ticks, client>>

NextMerge == MergeRun

SpecMerge == InitMerge /\ [][NextMerge]_vars

(***************************************************************************)
(* Properties                                                              *)
(***************************************************************************)
Analyzed == resp.op = "analyze"

Served == Analyzed /\ resp.code = 200

\* served from a continuation token: the batch ran, or the setup check
\* deferred it
ContinuationServed == Served /\ resp.tick \in {"batch", "deferred"}

\* the request fetched its batch and took the completion decision
BatchRun == Served /\ resp.tick = "batch"

\* A token decodable into {jobId, referenceImageId, nextIndex} with an
\* integer nextIndex >= 0.
WellFormed(tok) ==
    /\ tok.wire = "json"
    /\ tok.nextIndex >= 0
    /\ tok.referenceImageId # ""
    /\ tok.jobId >= 1

\* C1: in every reachable state, whatever bootstrap and continuation
\* requests were served and whatever tokens were re-sent, the persisted
\* results of every job hold at most one entry per imageId.
C1_OneEntryPerImageId ==
    \A j \in DOMAIN jobs :
        Cardinality(ImageIds(jobs[j].results)) = Len(jobs[j].results)

\* a re-sent token made the handler compare images whose results were
\* already persisted
C1_Witness ==
    /\ Served
    /\ resp.reprocessed # {}
    /\ Len(jobs[resp.jobId].results) >= 2

\* C2: whenever a response reports isComplete, the job's results hold
\* exactly one entry for every imageId 1..total.
C2_CompleteCoversAll ==
    (Served /\ resp.isComplete) =>
        /\ ImageIds(jobs[resp.jobId].results) = 1..resp.total
        /\ Len(jobs[resp.jobId].results) = resp.total

\* C3: the client that keeps sending the token of the last response
\* eventually gets isComplete for every job it scanned, and then the job's
\* results hold one entry per compared image.
C3_ChainCompletes ==
    \A j \in 1..ChainJobs :
        (resp.op = "scan" /\ resp.code = 200 /\ resp.jobId = j) ~>
            (/\ Served /\ resp.jobId = j /\ resp.isComplete
             /\ Cardinality(ImageIds(jobs[j].results)) = Len(jobs[j].results)
             /\ Len(jobs[j].results) = resp.total)

\* C4: after a continuation request with a well-formed token, nextIndex in
\* the response and in the returned token is one past the highest index
\* compared in this request, and the nextIndex of the token received when
\* nothing was compared.
C4_ExpectedNextIndex ==
    IF resp.compared = {} THEN resp.sent.nextIndex
    ELSE MathMax(resp.compared) + 1

C4_NextIndexPastAttempted ==
    (ContinuationServed /\ WellFormed(resp.sent)) =>
        /\ resp.nextIndex = C4_ExpectedNextIndex
        /\ resp.token # NoToken => resp.token.nextIndex = C4_ExpectedNextIndex

\* C5: a request that ran its batch reports isComplete exactly when its
\* nextIndex >= total; then the persisted status is complete and no token
\* is returned; otherwise the persisted status is processing and a token is
\* returned.
C5_CompletionAndStatus ==
    BatchRun =>
        /\ resp.isComplete <=> resp.nextIndex >= resp.total
        /\ resp.isComplete =>
              jobs[resp.jobId].status = "complete" /\ resp.token = NoToken
        /\ ~resp.isComplete =>
              jobs[resp.jobId].status = "processing" /\ resp.token # NoToken

\* C6: a request without token and with the face image compares nothing;
\* when it is served the job holds an empty result list with status
\* processing, and the response carries a token with nextIndex 0 and the
\* job's id.
C6_BootstrapTick ==
    (Analyzed /\ resp.sent = NoToken /\ resp.hasFile) =>
        /\ resp.compared = {}
        /\ resp.code = 200 =>
              /\ jobs[resp.jobId].results = <<>>
              /\ jobs[resp.jobId].status = "processing"
              /\ resp.token.wire = "json"
              /\ resp.token.nextIndex = 0
              /\ resp.token.jobId = resp.jobId
              /\ resp.token \in issued

\* the first request for a job that already had results
C6_Witness ==
    /\ Served /\ resp.sent = NoToken /\ resp.hasFile
    /\ resp.jobId = 2
    /\ \E t \in issued : t.jobId = 2 /\ t.nextIndex > 0

\* C7: a request for job J with a token whose jobId is not J is rejected
\* with a client error and changes no job.
C7_ForeignTokenRejected ==
    [][(/\ resp'.op = "analyze"
        /\ resp'.jobId \in DOMAIN jobs
        /\ resp'.sent.wire = "json"
        /\ resp'.sent.jobId # resp'.jobId)
       => (/\ resp'.code = 400
           /\ jobs' = jobs)]_vars

\* C8: a request with a non-empty token that is not well formed is rejected:
\* it is not run as a continuation from index 0 and compares nothing.
C8_MalformedTokenRejected ==
    (/\ Analyzed
     /\ resp.jobId \in DOMAIN jobs
     /\ resp.sent.wire # "none"
     /\ ~WellFormed(resp.sent))
    => resp.compared = {}

\* C9: a request with a well-formed token and without the face image is
\* answered with the reference-missing client error; it compares nothing,
\* returns no token and leaves the results of every job as they were.
C9_ReferenceMissing ==
    [][(/\ resp'.op = "analyze"
        /\ resp'.jobId \in DOMAIN jobs
        /\ WellFormed(resp'.sent)
        /\ ~resp'.hasFile)
       => (/\ resp'.code = 400
           /\ resp'.error = "ReferenceMissing"
           /\ resp'.compared = {}
           /\ resp'.token = NoToken
           /\ \A j \in DOMAIN jobs : jobs'[j].results = jobs[j].results)]_vars

\* such a request arrived for a job that already has results
C9_Witness ==
    /\ Analyzed /\ WellFormed(resp.sent) /\ ~resp.hasFile
    /\ resp.sent.nextIndex > 0
    /\ resp.error = "ReferenceMissing"
    /\ jobs[resp.jobId].results # <<>>

\* the entry of imageId id in a result list
EntryOf(results, id) == results[FindIndex(results, id)]

EntriesOf(results, id) == {results[k] : k \in {m \in DOMAIN results : results[m].imageId = id}}

\* C11: after one merge, the entry kept for every imageId has the highest
\* similarity among the entries of that imageId in the existing list and in
\* the batch, and when the existing entry has that similarity it is the
\* existing entry that is kept.
C11_MergeKeepsHighest ==
    merge.out # <<>> =>
        \A id \in ImageIds(merge.out[1]) :
            LET kept == EntryOf(merge.out[1], id)
                old == EntriesOf(merge.existing, id)
                new == EntriesOf(merge.incoming, id)
            IN /\ \A e \in old \cup new : e.similarity <= kept.similarity
               /\ (\E e \in old : e.similarity = kept.similarity) => kept \in old

\* C12: merging the same batch into the output of the merge leaves the
\* output as it is.
C12_MergeIdempotent ==
    \A k \in 2..Len(merge.out) : merge.out[k] = merge.out[1]

\* the batch was merged twice into a list that already held one of its
\* imageIds with another outcome, and brought a new imageId
C12_Witness ==
    /\ Len(merge.out) >= 2
    /\ \E k \in DOMAIN merge.incoming :
          /\ merge.incoming[k].imageId \in ImageIds(merge.existing)
          /\ merge.incoming[k] # EntryOf(merge.existing, merge.incoming[k].imageId)
    /\ ImageIds(merge.incoming) \ ImageIds(merge.existing) # {}

\* the entries of a batch whose imageId the existing list does not hold
NewEntries(existing, incoming) ==
    SelectSeq(incoming, LAMBDA e : e.imageId \notin ImageIds(existing))

\* C13: the merged list holds, position by position, the imageIds of the
\* existing list (an entry the batch does not touch is the existing entry,
\* an updated one stays at its position), followed by the entries of the
\* batch whose imageId is new, in the order of the batch.
C13_MergeKeepsOrder ==
    merge.out # <<>> =>
        LET mergedResults == merge.out[1]
            n == Len(merge.existing)
        IN /\ Len(mergedResults) >= n
           /\ \A k \in 1..n :
                 /\ mergedResults[k].imageId = merge.existing[k].imageId
                 /\ merge.existing[k].imageId \notin ImageIds(merge.incoming)
                       => mergedResults[k] = merge.existing[k]
           /\ SubSeq(mergedResults, n + 1, Len(mergedResults))
                 = NewEntries(merge.existing, merge.incoming)

\* the batch brought a new imageId and then another outcome for the first
\* entry of the existing list
C13_Witness ==
    /\ merge.out # <<>>
    /\ Len(merge.existing) >= 1
    /\ Len(merge.incoming) = 2
    /\ merge.incoming[1].imageId \notin ImageIds(merge.existing)
    /\ merge.incoming[2].imageId = merge.existing[1].imageId
    /\ merge.incoming[2] # merge.existing[1]

C15_BatchSizeInvariance ==
    (/\ Served /\ resp.isComplete
     /\ \A r \in Range(jobs[resp.jobId].results) : ~r.error)
    => /\ Range(jobs[resp.jobId].results) = {ScanResultOk(i) : i \in 0..(folder - 1)}
       /\ Len(jobs[resp.jobId].results) = folder

\* a job of several images completed in more than one batch
C15_Witness ==
    /\ Served /\ resp.isComplete
    /\ batchSize < folder
    /\ Len(jobs[resp.jobId].results) = folder
    /\ \A r \in Range(jobs[resp.jobId].results) : ~r.error

\* C16: the first request (no token) for a folder without images reports
\* isComplete with empty results and returns no token.
C16_EmptyFolderFirstTick ==
    (Served /\ resp.tick = "bootstrap" /\ resp.total = 0) =>
        /\ resp.isComplete
        /\ resp.results = <<>>
        /\ resp.token = NoToken

(***************************************************************************)
(* Failures and the time budget                                            *)
(***************************************************************************)
\* C17: a continuation request with a token the server issued whose batch
\* fetch fails is answered with an error and no token, and every job is
\* persisted exactly as before the request: results, status and imageCount.
C17_FetchFailureChangesNothing ==
    [][(resp'.op = "analyze" /\ resp'.sent \in issued /\ resp'.error = "FetchFailed")
       => (/\ resp'.code = 500
           /\ resp'.token = NoToken
           /\ jobs' = jobs)]_vars

C19_TimeoutKeepsCompleted ==
    (Analyzed /\ resp.timedOut /\ resp.sent \in issued) =>
        \A i \in resp.completed :
            /\ (i + 1) \in ImageIds(jobs[resp.jobId].results)
            /\ EntryOf(jobs[resp.jobId].results, i + 1) = ProcessImage(i, resp.failed)

(***************************************************************************)
(* Terminal jobs                                                           *)
(***************************************************************************)
\* the job of the last response is finished: its persisted status is
\* complete, or the response reported isComplete
Terminal(j) ==
    /\ j \in DOMAIN jobs
    /\ \/ jobs[j].status = "complete"
       \/ Served /\ resp.isComplete /\ resp.jobId = j

StatusOrder ==
    {<<"pending", "pending">>, <<"pending", "processing">>,
     <<"processing", "processing">>, <<"processing", "complete">>,
     <<"complete", "complete">>}

\* C21: a job is created with status pending, a served first request leaves
\* it with status processing, and no step moves the status of a job against
\* the order pending, processing, complete.
C21_StatusOrder ==
    [][/\ \A j \in DOMAIN jobs : <<jobs[j].status, jobs'[j].status>> \in StatusOrder
       /\ \A j \in (DOMAIN jobs') \ (DOMAIN jobs) : jobs'[j].status = "pending"
       /\ (resp'.op = "analyze" /\ resp'.code = 200 /\ resp'.tick = "bootstrap")
             => jobs'[resp'.jobId].status = "processing"]_vars

\* a first request was served for one job while another is still pending
C21_Witness ==
    /\ Served /\ resp.tick = "bootstrap"
    /\ jobs[resp.jobId].status = "processing"
    /\ \E j \in DOMAIN jobs : jobs[j].status = "pending"

\* C22: a request without token for a job whose first request was already
\* served (status processing, token returned) leaves the job's persisted
\* results as they are.
C22_SecondBootstrapKeepsResults ==
    [][(/\ resp'.op = "analyze"
        /\ resp'.sent = NoToken
        /\ resp'.jobId \in DOMAIN jobs
        /\ jobs[resp'.jobId].status = "processing"
        /\ InitialToken("reference", resp'.jobId) \in issued)
       => jobs'[resp'.jobId].results = jobs[resp'.jobId].results]_vars

\* C23: when a request lowers a job's imageCount, every imageId persisted
\* for the job beyond the new imageCount is still persisted after the
\* request.
C23_BeyondCountKept ==
    [][\A j \in DOMAIN jobs :
         jobs'[j].imageCount < jobs[j].imageCount =>
           \A id \in ImageIds(jobs[j].results) :
               id > jobs'[j].imageCount => id \in ImageIds(jobs'[j].results)]_vars

\* a request that carries a token drops no persisted imageId beyond the
\* job's imageCount, whether it lowers the count or follows the lowering
C23_ContinuationKeepsBeyondCount ==
    [][resp'.sent # NoToken =>
         \A j \in DOMAIN jobs :
           \A id \in ImageIds(jobs[j].results) :
             (id > jobs[j].imageCount \/ id > jobs'[j].imageCount)
                 => id \in ImageIds(jobs'[j].results)]_vars

\* C28: a request for a job id that the store does not hold is answered
\* with the not-found error and no token, and leaves the store, the
\* directory cache and the issued tokens as they were.
C28_UnknownJob ==
    [][(resp'.op = "analyze" /\ resp'.jobId \notin DOMAIN jobs)
       => (/\ resp'.code = 404
           /\ resp'.error = "JobNotFound"
           /\ resp'.token = NoToken
           /\ resp'.compared = {}
           /\ jobs' = jobs
           /\ currentId' = currentId
           /\ directoryCache' = directoryCache
           /\ issued' = issued)]_vars

\* a request for an unknown job id carrying a token issued for a job that
\* has results
C28_Witness ==
    /\ Analyzed /\ resp.code = 404
    /\ resp.jobId \notin DOMAIN jobs
    /\ resp.sent \in issued
    /\ \E j \in DOMAIN jobs : jobs[j].results # <<>>

C30_ResultsChangeAtPersistOnly ==
    [][/\ \A j \in DOMAIN jobs :
            jobs'[j].results # jobs[j].results =>
              \/ \E k \in DOMAIN ticks :
                    /\ ticks[k].jobId = j
                    /\ ticks' = Remove(ticks, k)
                    /\ jobs'[j].results = MergeResults(ticks[k].results, ticks[k].newResults)
              \/ /\ ticks' = ticks
                 /\ resp'.tick = "bootstrap" /\ resp'.jobId = j
                 /\ jobs'[j].results = <<>>
       /\ Len(ticks') > Len(ticks) =>
            jobs'[ticks'[Len(ticks')].jobId].results = ticks'[Len(ticks')].before]_vars

\* a read answered while a continuation request with new results was
\* between its load and its persist
C30_Witness ==
    /\ resp.op = "read" /\ resp.code = 200
    /\ \E k \in DOMAIN ticks :
          /\ ticks[k].jobId = resp.jobId
          /\ ticks[k].newResults # <<>>
          /\ ticks[k].results # <<>>
          /\ resp.snapshot.results = ticks[k].before

(***************************************************************************)
(* The client driver                                                       *)
(***************************************************************************)
TickTimers == client.timers["continue"] + client.timers["abortRetry"]
              + client.timers["errorRetry"] + client.timers["pollResume"]

\* C24: the client never has two analyze requests of the job in flight.
C24_SingleInFlight == Cardinality(client.inflight) <= 1

C26_PollsAfterTransportFailure ==
    (client.event \in {"abort", "transport"} /\ client.continuationToken = NoToken)
        => client.isPolling

\* C27: no analyze request is sent while the client is polling.
C27_NoTickWhilePolling == \A r \in client.inflight : ~r.polling

(***************************************************************************)
(* The store                                                               *)
(***************************************************************************)
\* C31: after every step the jobs of the store have pairwise different ids,
\* and every job that existed before the step is still stored with the id,
\* driveUrl and createdAt it had.
C31_IdentityImmutable ==
    [][/\ \A j, k \in DOMAIN jobs' : j # k => jobs'[j].id # jobs'[k].id
       /\ \A j \in DOMAIN jobs :
             /\ j \in DOMAIN jobs'
             /\ jobs'[j].id = jobs[j].id
             /\ jobs'[j].driveUrl = jobs[j].driveUrl
             /\ jobs'[j].createdAt = jobs[j].createdAt]_vars

\* two jobs, both with results persisted by continuation requests
C31_Witness ==
    /\ DOMAIN jobs = {1, 2}
    /\ jobs[1].results # <<>> /\ jobs[2].results # <<>>
    /\ jobs[1].createdAt = 1 /\ jobs[2].createdAt = 2
    /\ \E t \in issued : t.jobId = 1 /\ t.nextIndex > 0

(***************************************************************************)
(* The worked example                                                      *)
(***************************************************************************)
\* 5 files, batches of 2, the reference face on the files of index 2 and 4
Example == folder = 5 /\ batchSize = 2 /\ faces = {2, 4}

NoComparisonFailed(results) == \A k \in DOMAIN results : ~results[k].error

Matched(results) == {results[k].imageId : k \in {m \in DOMAIN results : results[m].matched}}

\* C32: in the worked example with a comparator that never fails, the first
\* request returns a token with nextIndex 0 and no results; the requests
\* sent with nextIndex 0, 2 and 4 return 2, 4 and 5 results with nextIndex
\* 2, 4 and, for the last, isComplete and no token, the results then marking
\* exactly the imageIds 3 and 5 as matched; no other token is ever sent.
C32_WorkedExample ==
    (Example /\ Served /\ NoComparisonFailed(jobs[resp.jobId].results)) =>
        /\ resp.sent = NoToken =>
              /\ resp.token.wire = "json" /\ resp.token.nextIndex = 0
              /\ resp.nextIndex = 0 /\ ~resp.isComplete
              /\ Len(resp.results) = 0
        /\ resp.sent # NoToken =>
              /\ resp.sent.nextIndex \in {0, 2, 4}
              /\ resp.sent.nextIndex = 0 =>
                    /\ Len(resp.results) = 2 /\ resp.processed = 2
                    /\ resp.nextIndex = 2 /\ resp.token.nextIndex = 2
                    /\ ~resp.isComplete
              /\ resp.sent.nextIndex = 2 =>
                    /\ Len(resp.results) = 4 /\ resp.processed = 4
                    /\ resp.nextIndex = 4 /\ resp.token.nextIndex = 4
                    /\ ~resp.isComplete
              /\ resp.sent.nextIndex = 4 =>
                    /\ Len(resp.results) = 5 /\ resp.processed = 5
                    /\ resp.isComplete /\ resp.token = NoToken
                    /\ Matched(resp.results) = {3, 5}
                    /\ jobs[resp.jobId].results = resp.results

\* the last request of the worked example was served
C32_Witness ==
    /\ Example /\ Served /\ NoComparisonFailed(jobs[resp.jobId].results)
    /\ resp.sent # NoToken /\ resp.sent.nextIndex = 4
    /\ ImageIds(jobs[resp.jobId].results) = 1..5

(***************************************************************************)
(* The checkpoints of the time budget                                      *)
(***************************************************************************)
\* C33: a request stopped by the setup-time check returns the token it
\* received with isComplete false, compares nothing, and leaves the results
\* and the status of every job as they were.
C33_SetupCheckDefers ==
    [][(resp'.op = "analyze" /\ resp'.tick = "deferred") =>
          /\ resp'.code = 200
          /\ resp'.token = resp'.sent
          /\ ~resp'.isComplete
          /\ resp'.compared = {} /\ resp'.newResults = <<>>
          /\ \A j \in DOMAIN jobs :
                /\ jobs'[j].results = jobs[j].results
                /\ jobs'[j].status = jobs[j].status]_vars

\* the setup check stopped a continuation of a job that has results
C33_Witness ==
    /\ Served /\ resp.tick = "deferred"
    /\ resp.sent.nextIndex > 0
    /\ resp.results # <<>>
    /\ jobs[resp.jobId].results = resp.results

\* C34: a continuation request served for the token of the previous
\* response returns a token whose nextIndex, as the handler reads it, is not
\* below the nextIndex of the token it received.
C34_NextIndexNeverDecreases ==
    (ContinuationServed /\ resp.sent \in issued /\ resp.token # NoToken) =>
        OrZero(resp.token.nextIndex) >= OrZero(resp.sent.nextIndex)

\* C35: a continuation request served for a token of the server whose batch
\* fetch returns no file reports isComplete, returns no token and leaves the
\* job's results as they were.
C35_EmptyBatchCompletes ==
    [][(/\ resp'.op = "analyze" /\ resp'.code = 200 /\ resp'.tick = "batch"
        /\ resp'.sent \in issued
        /\ resp'.compared = {})
       => (/\ resp'.isComplete
           /\ resp'.token = NoToken
           /\ jobs'[resp'.jobId].results = jobs[resp'.jobId].results)]_vars

(***************************************************************************)
(* Persisted results over a chain                                          *)
(***************************************************************************)
\* C36: a request that carries a token, whatever its outcome, leaves every
\* imageId of the persisted results of every job in the persisted results.
C36_ImageIdsNeverShrink ==
    [][(resp'.op = "analyze" /\ resp'.sent # NoToken) =>
          \A j \in DOMAIN jobs :
              ImageIds(jobs[j].results) \subseteq ImageIds(jobs'[j].results)]_vars

\* a continuation whose batch was cut by the timeout, for a job that has
\* results of images outside this batch
C36_Witness ==
    /\ BatchRun /\ resp.timedOut
    /\ resp.sent \in issued
    /\ ImageIds(jobs[resp.jobId].results) # {}
    /\ ImageIds(jobs[resp.jobId].results) \cap {i + 1 : i \in resp.compared} = {}

(***************************************************************************)
(* The directory cache                                                     *)
(***************************************************************************)
\* C37: the total of every served response to a request without token or
\* with a token the server returned for the job is the imageCount the job
\* has in the store when the response is sent.
C37_TotalIsPersistedCount ==
    (Served /\ (resp.sent = NoToken
                \/ (resp.sent \in issued /\ resp.sent.jobId = resp.jobId))) =>
        resp.total = jobs[resp.jobId].imageCount

(***************************************************************************)
(* The end of the analysis in the client                                   *)
(***************************************************************************)
\* C38: the step in which the client calls onAnalysisComplete handles a
\* served analyze response that reports isComplete or a status read that
\* reports the job complete, and after it every file of the folder has a
\* persisted result in the job.
C38_CompleteOnlyWhenDone ==
    [][(~client.complete /\ client'.complete) =>
          /\ \/ resp'.op = "analyze" /\ resp'.code = 200 /\ resp'.isComplete
             \/ resp'.op = "read" /\ resp'.code = 200
                /\ resp'.snapshot.status = "complete"
          /\ ImageIds(jobs'[client.jobId].results) = 1..folder]_vars

(***************************************************************************)
(* Interleaved continuation requests                                       *)
(***************************************************************************)
\* C39: when a continuation request persists its merged list, the persisted
\* results hold an entry for every imageId of its own batch and for every
\* imageId that was persisted before, hence also for those persisted by a
\* request that ran between its load and its persist.
C39_NoLostBatch ==
    [][\A k \in DOMAIN ticks :
          (ticks' = Remove(ticks, k) /\ resp'.sent = ticks[k].sent
                                     /\ resp'.jobId = ticks[k].jobId) =>
              (ImageIds(jobs[ticks[k].jobId].results) \cup ImageIds(ticks[k].newResults))
                  \subseteq ImageIds(jobs'[ticks[k].jobId].results)]_vars

====
